---- MODULE Spec2Model ----
(***************************************************************************)
(* Warbler (flask-warbler): the route handlers of app.py over the four     *)
(* tables users, messages, follows, likes, and the per-browser session.    *)
(* Each action is one HTTP request handled from before_request to the      *)
(* response; a request that raises leaves the database as it was (the      *)
(* transaction is never committed) and answers with a server error.        *)
(***************************************************************************)
EXTENDS Integers, Sequences, FiniteSets, Bags

VARIABLES users, messages, follows, likes, session,
          next_user_id, next_message_id, now, resp

vars == <<users, messages, follows, likes, session,
          next_user_id, next_message_id, now, resp>>

-----------------------------------------------------------------------------
(* Bounds of the model *)

\* user ids ever handed out by the users table's serial
MaxUsers == 2

\* message ids ever handed out by the messages table's serial
MaxMessages == 1

\* messages composed on top of the prepared feed tables (SpecFeed only)
MaxFeedExtra == 1

-----------------------------------------------------------------------------
(* Inputs *)

\* one browser, holding one session cookie
Clients == {"c1"}

Usernames == {"testuser1", "testuser2"}
Emails == {"test1@test.com", "test2@test.com"}
Passwords == {1, 2}
Salts == {1, 2}

UserIds == 1..MaxUsers
MessageIds == 1..MaxMessages

\* session without the CURR_USER_KEY key
NoUser == 0

CURR_USER_KEY == "curr_user"

DEFAULT_IMAGE_URL == "/static/images/default-pic.png"
DEFAULT_HEADER_IMAGE_URL == "/static/images/warbler-hero.jpg"

\* rows returned by the home feed at most
FeedLimit == 100

UserAddForms ==
    [username : Usernames, email : Emails, password : Passwords,
     image_url : {""}]

Texts == {"warble"}

BasicAddForms ==
    { [username |-> "testuser1", email |-> "test1@test.com", password |-> 1,
       image_url |-> ""],
      [username |-> "testuser2", email |-> "test2@test.com", password |-> 2,
       image_url |-> ""] }

LoginForms == [username : Usernames, password : Passwords]

ProfileInputs ==
    { [image_url |-> "", header_image_url |-> "", bio |-> ""],
      [image_url |-> "/img/me.png", header_image_url |-> "/img/hdr.png",
       bio |-> "hello"] }

EditUserForms ==
    { [email |-> e, username |-> n, image_url |-> p.image_url,
       header_image_url |-> p.header_image_url, bio |-> p.bio,
       password |-> pw] :
      e \in Emails, n \in Usernames, p \in ProfileInputs, pw \in Passwords }

BasicLoginForms ==
    { [username |-> "testuser1", password |-> 1],
      [username |-> "testuser2", password |-> 2],
      [username |-> "testuser2", password |-> 1] }

BasicEditForms ==
    { [email |-> "test1@test.com", username |-> "testuser1",
       image_url |-> "", header_image_url |-> "", bio |-> "",
       password |-> 1] }

-----------------------------------------------------------------------------
(* Schema layer *)

\* bcrypt digest of a password under a salt
Digest(pw, salt) == (pw * 7 + salt * 13) % 31

generate_password_hash(pw, salt) == [salt |-> salt, digest |-> Digest(pw, salt)]

check_password_hash(hashed, pw) == Digest(pw, hashed.salt) = hashed.digest

\* User.query.get(id)
UserGet(id) == IF id \in DOMAIN users THEN id ELSE NoUser

UsersByUsername(tbl, username) == {u \in DOMAIN tbl : tbl[u].username = username}

\* unique constraints of the users table: username and email
UsersUnique(tbl) ==
    \A u, v \in DOMAIN tbl :
        u # v => /\ tbl[u].username # tbl[v].username
                 /\ tbl[u].email # tbl[v].email

\* User.authenticate(username, password) against the rows of tbl
authenticate(tbl, username, password) ==
    LET found == UsersByUsername(tbl, username) IN
    IF found = {} THEN NoUser
    ELSE LET u == CHOOSE x \in found : \A y \in found : x <= y IN
         IF check_password_hash(tbl[u].password, password) THEN u ELSE NoUser

FollowRow(follower, followed) ==
    [user_following_id |-> follower, user_being_followed_id |-> followed]

\* User.following / User.followers relationships over the follows table
following(u) ==
    {f.user_being_followed_id : f \in {x \in follows : x.user_following_id = u}}

followers(u) ==
    {f.user_following_id : f \in {x \in follows : x.user_being_followed_id = u}}

LikeRow(liker, msg) == [liker_id |-> liker, message_id |-> msg]

\* Likes rows of the table, each once
LikeRows == BagToSet(likes)

\* rows a foreign key of the likes table ties to message m
LikesOfMessage(m) == {l \in LikeRows : l.message_id = m}

\* foreign key likes.message_id -> messages.id: a message some Likes row
\* points at cannot be deleted
MessageDeletable(m) == LikesOfMessage(m) = {}

\* a likes table without the one-row-per-pair constraint
LikeInsertable_no_unique(row) ==
    /\ row.liker_id \in DOMAIN users
    /\ row.message_id \in DOMAIN messages

\* likes: one row per (liker_id, message_id), each referencing existing rows
LikeInsertable(row) ==
    /\ row.liker_id \in DOMAIN users
    /\ row.message_id \in DOMAIN messages
    /\ ~BagIn(row, likes)

\* follows: one row per ordered pair, each end an existing user
FollowInsertable(row) ==
    /\ row.user_following_id \in DOMAIN users
    /\ row.user_being_followed_id \in DOMAIN users
    /\ row \notin follows

MessagesOf(u) == {m \in DOMAIN messages : messages[m].user_id = u}

-----------------------------------------------------------------------------
(* Session helpers *)

\* add_user_to_g: g.user for the request of client c
g_user(c) == IF session[c] # NoUser THEN UserGet(session[c]) ELSE NoUser

do_login(c, u) == session' = [session EXCEPT ![c] = u]

do_logout(c) == session' = [session EXCEPT ![c] = NoUser]

Response(c, route, arg, status) ==
    [client |-> c, route |-> route, arg |-> arg, status |-> status, feed |-> <<>>]

Unauthorized(c, route) ==
    /\ resp' = Response(c, route, 0, "unauthorized")
    /\ UNCHANGED <<users, messages, follows, likes, session,
                   next_user_id, next_message_id, now>>

\* the response of a request that changes neither rows nor session
Answer(c, route, arg, status) ==
    /\ resp' = Response(c, route, arg, status)
    /\ UNCHANGED <<users, messages, follows, likes, session,
                   next_user_id, next_message_id, now>>

-----------------------------------------------------------------------------
(* Signup, login, logout *)

\* signup that falls through to do_login after the IntegrityError
signup_login_anyway(c, form, valid, salt) ==
    IF ~valid THEN Answer(c, "signup", 0, "invalid")
    ELSE
      LET row == [username |-> form.username,
                  email |-> form.email,
                  password |-> generate_password_hash(form.password, salt),
                  image_url |-> IF form.image_url # "" THEN form.image_url
                                ELSE DEFAULT_IMAGE_URL,
                  header_image_url |-> DEFAULT_HEADER_IMAGE_URL,
                  bio |-> ""]
          id == next_user_id
          tbl == [u \in DOMAIN users \cup {id} |->
                    IF u = id THEN row ELSE users[u]]
      IN
      IF UsersUnique(tbl)
      THEN /\ users' = tbl
           /\ next_user_id' = next_user_id + 1
           /\ do_login(c, id)
           /\ resp' = Response(c, "signup", id, "ok")
           /\ UNCHANGED <<messages, follows, likes, next_message_id, now>>
      ELSE /\ do_login(c, id)
           /\ resp' = Response(c, "signup", 0, "taken")
           /\ UNCHANGED <<users, messages, follows, likes,
                          next_user_id, next_message_id, now>>

\* User.signup(...) + db.session.commit(): the row inserted, or unchanged on IntegrityError
signup(c, form, valid, salt) ==
    IF ~valid THEN Answer(c, "signup", 0, "invalid")
    ELSE
      LET row == [username |-> form.username,
                  email |-> form.email,
                  password |-> generate_password_hash(form.password, salt),
                  image_url |-> IF form.image_url # "" THEN form.image_url
                                ELSE DEFAULT_IMAGE_URL,
                  header_image_url |-> DEFAULT_HEADER_IMAGE_URL,
                  bio |-> ""]
          id == next_user_id
          tbl == [u \in DOMAIN users \cup {id} |->
                    IF u = id THEN row ELSE users[u]]
      IN
      IF UsersUnique(tbl)
      THEN /\ users' = tbl
           /\ next_user_id' = next_user_id + 1
           /\ do_login(c, id)
           /\ resp' = Response(c, "signup", id, "ok")
           /\ UNCHANGED <<messages, follows, likes, next_message_id, now>>
      ELSE Answer(c, "signup", 0, "taken")

\* login that takes the user found by username without checking the password
login_by_username(c, form, valid) ==
    IF ~valid THEN Answer(c, "login", 0, "invalid")
    ELSE
      LET found == UsersByUsername(users, form.username) IN
      IF found # {}
      THEN LET user == CHOOSE x \in found : \A y \in found : x <= y IN
           /\ do_login(c, user)
           /\ resp' = Response(c, "login", user, "ok")
           /\ UNCHANGED <<users, messages, follows, likes,
                          next_user_id, next_message_id, now>>
      ELSE Answer(c, "login", 0, "badcreds")

login(c, form, valid) ==
    IF ~valid THEN Answer(c, "login", 0, "invalid")
    ELSE
      LET user == authenticate(users, form.username, form.password) IN
      IF user # NoUser
      THEN /\ do_login(c, user)
           /\ resp' = Response(c, "login", user, "ok")
           /\ UNCHANGED <<users, messages, follows, likes,
                          next_user_id, next_message_id, now>>
      ELSE Answer(c, "login", 0, "badcreds")

logout(c, valid) ==
    IF g_user(c) = NoUser THEN Unauthorized(c, "logout")
    ELSE IF valid
    THEN /\ do_logout(c)
         /\ resp' = Response(c, "logout", 0, "ok")
         /\ UNCHANGED <<users, messages, follows, likes,
                        next_user_id, next_message_id, now>>
    ELSE Answer(c, "logout", 0, "invalid")

-----------------------------------------------------------------------------
(* General user routes *)

\* add_follow with the edge stored the wrong way round
add_follow_reversed(c, follow_id, valid) ==
    IF g_user(c) = NoUser THEN Unauthorized(c, "add_follow")
    ELSE IF ~valid THEN Answer(c, "add_follow", 0, "invalid")
    ELSE IF UserGet(follow_id) = NoUser
    THEN Answer(c, "add_follow", follow_id, "notfound")
    ELSE IF ~FollowInsertable(FollowRow(follow_id, g_user(c)))
    THEN Answer(c, "add_follow", follow_id, "error")
    ELSE /\ follows' = follows \cup {FollowRow(follow_id, g_user(c))}
         /\ resp' = Response(c, "add_follow", follow_id, "ok")
         /\ UNCHANGED <<users, messages, likes, session,
                        next_user_id, next_message_id, now>>

add_follow(c, follow_id, valid) ==
    IF g_user(c) = NoUser THEN Unauthorized(c, "add_follow")
    ELSE IF ~valid THEN Answer(c, "add_follow", 0, "invalid")
    ELSE IF UserGet(follow_id) = NoUser
    THEN Answer(c, "add_follow", follow_id, "notfound")
    ELSE IF ~FollowInsertable(FollowRow(g_user(c), follow_id))
    THEN Answer(c, "add_follow", follow_id, "error")
    ELSE /\ follows' = follows \cup {FollowRow(g_user(c), follow_id)}
         /\ resp' = Response(c, "add_follow", follow_id, "ok")
         /\ UNCHANGED <<users, messages, likes, session,
                        next_user_id, next_message_id, now>>

stop_following(c, follow_id, valid) ==
    IF g_user(c) = NoUser THEN Unauthorized(c, "stop_following")
    ELSE IF ~valid THEN Answer(c, "stop_following", 0, "invalid")
    ELSE IF UserGet(follow_id) \notin following(g_user(c))
    THEN Answer(c, "stop_following", follow_id, "error")
    ELSE /\ follows' = follows \ {FollowRow(g_user(c), follow_id)}
         /\ resp' = Response(c, "stop_following", follow_id, "ok")
         /\ UNCHANGED <<users, messages, likes, session,
                        next_user_id, next_message_id, now>>

\* edit_profile that commits before it checks the password
edit_profile_commit_first(c, form, valid) ==
    IF g_user(c) = NoUser THEN Unauthorized(c, "edit_profile")
    ELSE IF ~valid THEN Answer(c, "edit_profile", 0, "invalid")
    ELSE
      LET u == g_user(c)
          row == [users[u] EXCEPT
                    !.email = form.email,
                    !.username = form.username,
                    !.image_url = IF form.image_url # "" THEN form.image_url
                                  ELSE DEFAULT_IMAGE_URL,
                    !.header_image_url =
                        IF form.header_image_url # "" THEN form.header_image_url
                        ELSE DEFAULT_HEADER_IMAGE_URL,
                    !.bio = form.bio]
          tbl == [users EXCEPT ![u] = row]
      IN
      IF ~UsersUnique(tbl) THEN Answer(c, "edit_profile", u, "error")
      ELSE /\ users' = tbl
           /\ resp' = Response(c, "edit_profile", u,
                               IF authenticate(tbl, row.username, form.password) # NoUser
                               THEN "ok" ELSE "badcreds")
           /\ UNCHANGED <<messages, follows, likes, session,
                          next_user_id, next_message_id, now>>

edit_profile(c, form, valid) ==
    IF g_user(c) = NoUser THEN Unauthorized(c, "edit_profile")
    ELSE IF ~valid THEN Answer(c, "edit_profile", 0, "invalid")
    ELSE
      LET u == g_user(c)
          row == [users[u] EXCEPT
                    !.email = form.email,
                    !.username = form.username,
                    !.image_url = IF form.image_url # "" THEN form.image_url
                                  ELSE DEFAULT_IMAGE_URL,
                    !.header_image_url =
                        IF form.header_image_url # "" THEN form.header_image_url
                        ELSE DEFAULT_HEADER_IMAGE_URL,
                    !.bio = form.bio]
          \* the pending row is flushed before authenticate's query runs
          tbl == [users EXCEPT ![u] = row]
      IN
      IF ~UsersUnique(tbl) THEN Answer(c, "edit_profile", u, "error")
      ELSE IF authenticate(tbl, row.username, form.password) # NoUser
      THEN /\ users' = tbl
           /\ resp' = Response(c, "edit_profile", u, "ok")
           /\ UNCHANGED <<messages, follows, likes, session,
                          next_user_id, next_message_id, now>>
      ELSE Answer(c, "edit_profile", u, "badcreds")

delete_user(c, valid) ==
    IF g_user(c) = NoUser THEN Unauthorized(c, "delete_user")
    ELSE IF ~valid THEN Answer(c, "delete_user", 0, "invalid")
    ELSE
      LET u == g_user(c)
          gone == MessagesOf(u)
      IN
      \* Message.query.filter_by(user_id=u).delete() runs first, while every
      \* Likes row is still in place
      IF \E m \in gone : ~MessageDeletable(m)
      THEN Answer(c, "delete_user", u, "error")
      ELSE /\ messages' = [m \in DOMAIN messages \ gone |-> messages[m]]
           /\ follows' = {f \in follows : /\ f.user_being_followed_id # u
                                          /\ f.user_following_id # u}
           /\ likes' = [l \in {x \in DOMAIN likes : x.liker_id # u} |-> likes[l]]
           /\ users' = [v \in DOMAIN users \ {u} |-> users[v]]
           /\ resp' = Response(c, "delete_user", u, "ok")
           /\ UNCHANGED <<session, next_user_id, next_message_id, now>>

-----------------------------------------------------------------------------
(* Messages routes *)

messages_add(c, text, valid, tick) ==
    IF g_user(c) = NoUser THEN Unauthorized(c, "messages_add")
    ELSE IF ~valid THEN Answer(c, "messages_add", 0, "invalid")
    ELSE
      LET id == next_message_id IN
      /\ messages' = [m \in DOMAIN messages \cup {id} |->
                        IF m = id
                        THEN [text |-> text, timestamp |-> now + tick,
                              user_id |-> g_user(c)]
                        ELSE messages[m]]
      /\ next_message_id' = next_message_id + 1
      /\ now' = now + tick
      /\ resp' = Response(c, "messages_add", id, "ok")
      /\ UNCHANGED <<users, follows, likes, session, next_user_id>>

\* messages_destroy without its `if not g.user` check
messages_destroy_unguarded(c, message_id, valid) ==
    IF ~valid THEN Answer(c, "messages_destroy", 0, "invalid")
    ELSE IF message_id \notin DOMAIN messages
    THEN Answer(c, "messages_destroy", message_id, "error")
    ELSE IF ~MessageDeletable(message_id)
    THEN Answer(c, "messages_destroy", message_id, "error")
    ELSE /\ messages' = [m \in DOMAIN messages \ {message_id} |-> messages[m]]
         /\ resp' = Response(c, "messages_destroy", message_id, "ok")
         /\ UNCHANGED <<users, follows, likes, session,
                        next_user_id, next_message_id, now>>

messages_destroy(c, message_id, valid) ==
    IF g_user(c) = NoUser THEN Unauthorized(c, "messages_destroy")
    ELSE IF ~valid THEN Answer(c, "messages_destroy", 0, "invalid")
    ELSE IF message_id \notin DOMAIN messages
    THEN Answer(c, "messages_destroy", message_id, "error")
    ELSE IF ~MessageDeletable(message_id)
    THEN Answer(c, "messages_destroy", message_id, "error")
    ELSE /\ messages' = [m \in DOMAIN messages \ {message_id} |-> messages[m]]
         /\ resp' = Response(c, "messages_destroy", message_id, "ok")
         /\ UNCHANGED <<users, follows, likes, session,
                        next_user_id, next_message_id, now>>

-----------------------------------------------------------------------------
(* Likes for messages *)

like_message(c, msg_id, valid) ==
    IF g_user(c) = NoUser THEN Unauthorized(c, "like_message")
    ELSE IF ~valid THEN Answer(c, "like_message", 0, "invalid")
    ELSE
      LET like == LikeRow(g_user(c), msg_id) IN
      IF ~LikeInsertable(like)
      THEN Answer(c, "like_message", msg_id, "error")
      ELSE /\ likes' = likes (+) SetToBag({like})
           /\ resp' = Response(c, "like_message", msg_id, "ok")
           /\ UNCHANGED <<users, messages, follows, session,
                          next_user_id, next_message_id, now>>

\* unlike_message with the query filtered by message_id alone
unlike_message_any_liker(c, msg_id, valid) ==
    IF g_user(c) = NoUser THEN Unauthorized(c, "unlike_message")
    ELSE IF ~valid THEN Answer(c, "unlike_message", 0, "invalid")
    ELSE IF LikesOfMessage(msg_id) # {}
    THEN /\ likes' = [l \in DOMAIN likes \ LikesOfMessage(msg_id) |-> likes[l]]
         /\ resp' = Response(c, "unlike_message", msg_id, "ok")
         /\ UNCHANGED <<users, messages, follows, session,
                        next_user_id, next_message_id, now>>
    ELSE Answer(c, "unlike_message", msg_id, "noop")

unlike_message(c, msg_id, valid) ==
    IF g_user(c) = NoUser THEN Unauthorized(c, "unlike_message")
    ELSE IF ~valid THEN Answer(c, "unlike_message", 0, "invalid")
    ELSE
      LET like == LikeRow(g_user(c), msg_id) IN
      IF CopiesIn(like, likes) > 1
      THEN Answer(c, "unlike_message", msg_id, "error")
      ELSE IF CopiesIn(like, likes) = 1
      THEN /\ likes' = likes (-) SetToBag({like})
           /\ resp' = Response(c, "unlike_message", msg_id, "ok")
           /\ UNCHANGED <<users, messages, follows, session,
                          next_user_id, next_message_id, now>>
      ELSE Answer(c, "unlike_message", msg_id, "noop")

-----------------------------------------------------------------------------
(* Homepage *)

\* ORDER BY timestamp DESC: row a is put before row b; rows of equal
\* timestamp come in the order the store yields them (by id, either way)
Before(a, b, tie) ==
    \/ messages[a].timestamp > messages[b].timestamp
    \/ /\ messages[a].timestamp = messages[b].timestamp
       /\ IF tie = "asc" THEN a < b ELSE a > b

InsertRow(rows, m, tie) ==
    LET k == Cardinality({i \in 1..Len(rows) : Before(rows[i], m, tie)}) IN
    SubSeq(rows, 1, k) \o <<m>> \o SubSeq(rows, k + 1, Len(rows))

RECURSIVE OrderByTimestampDesc(_, _, _, _)
\* rows, already ordered, with the rows of S of id from..upto put in place
OrderByTimestampDesc(rows, S, from, tie) ==
    IF Len(rows) >= 0 /\ from >= next_message_id THEN rows
    ELSE OrderByTimestampDesc(
             IF from \in S THEN InsertRow(rows, from, tie) ELSE rows,
             S, from + 1, tie)

\* .limit(n)
Limit(rows, n) == SubSeq(rows, 1, IF Len(rows) < n THEN Len(rows) ELSE n)

\* the feed's id list built from the followers instead of the followed
ids_for_feed_followers(u) == {u} \cup followers(u)

ids_for_feed(u) == {u} \cup following(u)

FeedQuery(u, tie) ==
    Limit(OrderByTimestampDesc(<<>>,
                               {m \in DOMAIN messages :
                                   messages[m].user_id \in ids_for_feed(u)},
                               1, tie),
          FeedLimit)

homepage(c, tie) ==
    IF g_user(c) # NoUser
    THEN /\ resp' = [Response(c, "homepage", 0, "ok") EXCEPT
                        !.feed = FeedQuery(g_user(c), tie)]
         /\ UNCHANGED <<users, messages, follows, likes, session,
                        next_user_id, next_message_id, now>>
    ELSE Answer(c, "homepage", 0, "anon")

-----------------------------------------------------------------------------
(* Specifications *)

InitWith(clients) ==
    /\ users = <<>>
    /\ messages = <<>>
    /\ follows = {}
    /\ likes = EmptyBag
    /\ session = [c \in clients |-> NoUser]
    /\ next_user_id = 1
    /\ next_message_id = 1
    /\ now = 0
    /\ resp = Response("c1", "none", 0, "none")

\* the inputs a request is tried with: every one of them when it passes its
\* form validation, one when it does not (a rejected form is not read)
Submitted(inputs, valid) ==
    IF valid THEN inputs ELSE {CHOOSE x \in inputs : TRUE}

\* Two accounts with fixed credentials and every route of the application.
Init == InitWith(Clients)

Next ==
    \/ \E c \in DOMAIN session, valid \in BOOLEAN :
          \E form \in Submitted(BasicAddForms, valid) :
             /\ next_user_id <= MaxUsers
             /\ signup(c, form, valid, 1)
    \/ \E c \in DOMAIN session, valid \in BOOLEAN :
          \E form \in Submitted(BasicLoginForms, valid) : login(c, form, valid)
    \/ \E c \in DOMAIN session, valid \in BOOLEAN : logout(c, valid)
    \/ \E c \in DOMAIN session, valid \in BOOLEAN :
          \E id \in Submitted(UserIds, valid) : add_follow(c, id, valid)
    \/ \E c \in DOMAIN session, valid \in BOOLEAN :
          \E id \in Submitted(UserIds, valid) : stop_following(c, id, valid)
    \/ \E c \in DOMAIN session, valid \in BOOLEAN :
          \E form \in Submitted(BasicEditForms, valid) : edit_profile(c, form, valid)
    \/ \E c \in DOMAIN session, valid \in BOOLEAN : delete_user(c, valid)
    \/ \E c \in DOMAIN session, text \in Texts, valid \in BOOLEAN :
          /\ next_message_id <= MaxMessages
          /\ messages_add(c, text, valid, 1)
    \/ \E c \in DOMAIN session, valid \in BOOLEAN :
          \E id \in Submitted(MessageIds, valid) : messages_destroy(c, id, valid)
    \/ \E c \in DOMAIN session, valid \in BOOLEAN :
          \E id \in Submitted(MessageIds, valid) : like_message(c, id, valid)
    \/ \E c \in DOMAIN session, valid \in BOOLEAN :
          \E id \in Submitted(MessageIds, valid) : unlike_message(c, id, valid)

Spec == Init /\ [][Next]_vars

\* The account routes, with every signup, login and edit input.
InitAccounts == InitWith(Clients)

NextAccounts ==
    \/ \E c \in DOMAIN session, valid \in BOOLEAN :
          \E form \in Submitted(UserAddForms, valid), salt \in Submitted(Salts, valid) :
             /\ next_user_id <= MaxUsers
             /\ signup(c, form, valid, salt)
    \/ \E c \in DOMAIN session, valid \in BOOLEAN :
          \E form \in Submitted(LoginForms, valid) : login(c, form, valid)
    \/ \E c \in DOMAIN session, valid \in BOOLEAN : logout(c, valid)
    \/ \E c \in DOMAIN session, valid \in BOOLEAN :
          \E form \in Submitted(EditUserForms, valid) : edit_profile(c, form, valid)
    \/ \E c \in DOMAIN session, valid \in BOOLEAN : delete_user(c, valid)

SpecAccounts == InitAccounts /\ [][NextAccounts]_vars

\* One browser over tables already holding about FeedLimit messages.
FeedSizes == {FeedLimit - 1, FeedLimit}

FeedUserIds == 1..2

FeedUser(u) ==
    [username |-> IF u = 1 THEN "testuser1" ELSE "testuser2",
     email |-> IF u = 1 THEN "test1@test.com" ELSE "test2@test.com",
     password |-> generate_password_hash(u, 1),
     image_url |-> DEFAULT_IMAGE_URL,
     header_image_url |-> DEFAULT_HEADER_IMAGE_URL, bio |-> ""]

InitFeed ==
    \E n \in FeedSizes, k \in {1, 2} :
        /\ users = [u \in FeedUserIds |-> FeedUser(u)]
        /\ messages = [m \in 1..n |->
                         [text |-> "warble", timestamp |-> (m + 1) \div 2,
                          user_id |-> ((m - 1) % k) + 1]]
        /\ follows = {}
        /\ likes = EmptyBag
        /\ session = [c \in Clients |-> 1]
        /\ next_user_id = 3
        /\ next_message_id = n + 1
        /\ now = (n + 1) \div 2
        /\ resp = Response("c1", "none", 0, "none")

NextFeed ==
    \/ \E c \in DOMAIN session, tie \in {"asc", "desc"} : homepage(c, tie)
    \/ \E c \in DOMAIN session, id \in FeedUserIds, valid \in BOOLEAN :
          add_follow(c, id, valid)
    \/ \E c \in DOMAIN session, id \in FeedUserIds, valid \in BOOLEAN :
          stop_following(c, id, valid)
    \/ \E c \in DOMAIN session, text \in Texts, valid \in BOOLEAN, tick \in {0, 1} :
          /\ next_message_id <= FeedLimit + MaxFeedExtra
          /\ messages_add(c, text, valid, tick)
    \/ \E c \in DOMAIN session, valid \in BOOLEAN : logout(c, valid)
    \/ \E c \in DOMAIN session, valid \in BOOLEAN :
          login(c, [username |-> "testuser1", password |-> 1], valid)

SpecFeed == InitFeed /\ [][NextFeed]_vars

-----------------------------------------------------------------------------
(* Properties *)

\* the request answered in the step was made logged in and passed its form
\* (CSRF) validation
Served == resp'.status \notin {"unauthorized", "invalid"}

\* the session of client c names no user of the users table
NoCurrentUser(c) == session[c] = NoUser \/ session[c] \notin DOMAIN users

FollowsMirrored ==
    \A u1, u2 \in DOMAIN users :
        /\ (u2 \in following(u1)) <=> (u1 \in followers(u2))
        /\ FollowRow(u1, u2) \notin follows =>
              u2 \notin following(u1) /\ u1 \notin followers(u2)

\* C1: for existing users u1 and u2, u2 is in following(u1) exactly when u1 is
\* in followers(u2); with no follow edge neither holds; after a logged-in,
\* CSRF-valid follow of u2 by u1 both memberships hold, and after a logged-in,
\* CSRF-valid stop-following of u2 by u1 neither does.
C1_FollowMemberships ==
    /\ FollowsMirrored
    /\ [][/\ (follows' # follows \/ users' # users) => FollowsMirrored'
          /\ (resp'.route \in {"add_follow", "stop_following"} /\ Served) =>
                \A c \in DOMAIN session, u1 \in DOMAIN users, u2 \in DOMAIN users :
                   (u1 = session[c] /\ resp'.client = c /\ resp'.arg = u2) =>
                      IF resp'.route = "add_follow"
                      THEN (u2 \in following(u1))' /\ (u1 \in followers(u2))'
                      ELSE (u2 \notin following(u1))' /\ (u1 \notin followers(u2))'
         ]_vars

\* C1 witness: an unfollow was served while another follow edge is in place
C1_Witness ==
    /\ resp.route = "stop_following"
    /\ resp.status = "ok"
    /\ \E u1, u2 \in DOMAIN users : u1 # u2 /\ u2 \in following(u1)

\* no row of any table references user u
NoRowReferences(u) ==
    /\ u \notin DOMAIN users
    /\ \A m \in DOMAIN messages : messages[m].user_id # u
    /\ \A f \in follows : f.user_following_id # u /\ f.user_being_followed_id # u
    /\ \A l \in LikeRows : l.liker_id # u

\* every row references rows that exist
NoOrphanRows ==
    /\ \A m \in DOMAIN messages : messages[m].user_id \in DOMAIN users
    /\ \A f \in follows : /\ f.user_following_id \in DOMAIN users
                          /\ f.user_being_followed_id \in DOMAIN users
    /\ \A l \in LikeRows : /\ l.liker_id \in DOMAIN users
                           /\ l.message_id \in DOMAIN messages

\* C2: after a logged-in, CSRF-valid POST /users/delete by user u no row
\* referencing u remains (no message, follow edge or like of u, nor u's own
\* row) and no orphan row is left behind.
C2_DeleteUserLeavesNoRows ==
    [][\A c \in DOMAIN session, u \in DOMAIN users :
          (u = session[c] /\ resp'.client = c /\ resp'.route = "delete_user"
             /\ Served) =>
             NoRowReferences(u)' /\ NoOrphanRows'
      ]_vars

GuardedRoutes ==
    {"logout", "add_follow", "stop_following", "edit_profile", "delete_user",
     "messages_add", "messages_destroy", "like_message", "unlike_message"}

\* C4: a request to a mutating route other than signup and login that arrives
\* with no current user (no user id in the session, or the id of a user that
\* no longer exists) is answered with an authorization failure and leaves the
\* User, Message, Follows and Likes rows and the session unchanged.
C4_NoUserShortCircuits ==
    [][\A c \in DOMAIN session :
          (NoCurrentUser(c) /\ resp'.client = c /\ resp'.route \in GuardedRoutes) =>
             /\ resp'.status = "unauthorized"
             /\ UNCHANGED <<users, messages, follows, likes, session>>
      ]_vars

\* C4 witness: a request was refused for a session that still holds the id of
\* a deleted account, while other rows exist
C4_Witness ==
    /\ resp.status = "unauthorized"
    /\ session[resp.client] # NoUser
    /\ session[resp.client] \notin DOMAIN users
    /\ DOMAIN users # {}
    /\ DOMAIN messages # {}

C8_OnlyOwnerDeletes ==
    [][\A m \in DOMAIN messages :
          (resp'.route = "messages_destroy" /\ m \notin DOMAIN messages') =>
             messages[m].user_id = session[resp'.client]
      ]_vars

\* C9: a logged-in, CSRF-valid unlike of message m by user u removes the Likes
\* row (u, m) if there is one and changes no other row; with no such row the
\* request completes normally and changes nothing.
C9_UnlikeFrame ==
    [][\A c \in DOMAIN session, u \in DOMAIN users, m \in MessageIds :
          (u = session[c] /\ resp'.client = c /\ resp'.route = "unlike_message"
             /\ resp'.arg = m /\ Served) =>
             /\ resp'.status # "error"
             /\ ~BagIn(LikeRow(u, m), likes')
             /\ \A l \in DOMAIN likes \cup DOMAIN likes' :
                   l # LikeRow(u, m) => CopiesIn(l, likes') = CopiesIn(l, likes)
             /\ UNCHANGED <<users, messages, follows, session>>
             /\ ~BagIn(LikeRow(u, m), likes) => likes' = likes
      ]_vars

\* C9 witness: an unlike removed a row while another Likes row stays
C9_Witness ==
    /\ resp.route = "unlike_message"
    /\ resp.status = "ok"
    /\ likes # EmptyBag

\* some user row already carries the form's username or its email
Taken(form) ==
    \E u \in DOMAIN users :
        users[u].username = form.username \/ users[u].email = form.email

NoSharedNames(tbl) ==
    \A u, v \in DOMAIN tbl :
        (tbl[u].username = tbl[v].username \/ tbl[u].email = tbl[v].email) => u = v

\* C5: a signup whose username or email is that of an existing user leaves the
\* User rows as they were and logs nobody in; in every reachable state no two
\* User rows share a username or an email.
C5_DuplicateSignupFails ==
    /\ NoSharedNames(users)
    /\ [][/\ NoSharedNames(users')
          /\ resp'.route = "signup" =>
               \A c \in DOMAIN session, form \in UserAddForms, salt \in Salts :
                  (Taken(form) /\ signup(c, form, TRUE, salt)) =>
                     users' = users /\ session' = session
         ]_vars

\* C5 witness: a signup by a logged-out browser was turned down as taken
C5_Witness ==
    /\ resp.route = "signup"
    /\ resp.status = "taken"
    /\ DOMAIN users # {}
    /\ session[resp.client] = NoUser

\* the stored hash of row is the hash, under some salt, of password pw
HashOf(row, pw) ==
    \E salt \in Salts : row.password = generate_password_hash(pw, salt)

\* C6: a signup with a fresh username and email succeeds, adds exactly one
\* User, carrying that username and the hash of that password, and stores its
\* id in the session; a login with the username of a user and the password
\* that user signed up with stores that user's id in the session, and a login
\* with that username and any other password is turned down and leaves the
\* session unchanged.
C6_SignupThenLogin ==
    [][/\ resp'.route = "signup" =>
            \A c \in DOMAIN session, form \in UserAddForms, salt \in Salts :
               (~Taken(form) /\ signup(c, form, TRUE, salt)) =>
                  \E id \in DOMAIN users' \ DOMAIN users :
                     /\ DOMAIN users' = DOMAIN users \cup {id}
                     /\ \A v \in DOMAIN users : users'[v] = users[v]
                     /\ users'[id].username = form.username
                     /\ HashOf(users'[id], form.password)
                     /\ session' = [session EXCEPT ![c] = id]
                     /\ resp'.status = "ok"
       /\ resp'.route = "login" =>
            \A c \in DOMAIN session, form \in LoginForms, u \in DOMAIN users :
               (users[u].username = form.username /\ login(c, form, TRUE)) =>
                  /\ users' = users
                  /\ IF HashOf(users[u], form.password)
                     THEN session' = [session EXCEPT ![c] = u] /\ resp'.status = "ok"
                     ELSE session' = session /\ resp'.status = "badcreds"
      ]_vars

\* C6 witness: a login authenticated a user who signed up before another
\* account was made
C6_Witness ==
    /\ resp.route = "login"
    /\ resp.status = "ok"
    /\ session[resp.client] = resp.arg
    /\ resp.arg \in DOMAIN users
    /\ \E v \in DOMAIN users : v > resp.arg

\* C10: POST /users/profile persists the submitted email, username, image,
\* header image and bio on the current user only when the submitted password
\* is the current user's; with a wrong password the stored row is unchanged;
\* no other user's row is modified and the password is never changed.
C10_EditNeedsPassword ==
    [][resp'.route = "edit_profile" =>
          \A c \in DOMAIN session, u \in DOMAIN users, form \in EditUserForms :
             (u = session[c] /\ resp'.client = c /\ edit_profile(c, form, TRUE)) =>
                /\ DOMAIN users' = DOMAIN users
                /\ \A v \in DOMAIN users : v # u => users'[v] = users[v]
                /\ users'[u].password = users[u].password
                /\ ~HashOf(users[u], form.password) => users' = users
                /\ resp'.status = "ok" =>
                      /\ HashOf(users[u], form.password)
                      /\ users'[u].email = form.email
                      /\ users'[u].username = form.username
                      /\ users'[u].bio = form.bio
                      /\ form.image_url # "" => users'[u].image_url = form.image_url
                      /\ form.header_image_url # "" =>
                            users'[u].header_image_url = form.header_image_url
      ]_vars

\* C10 witness: an edit with a wrong password was turned down while another
\* user exists
C10_Witness ==
    /\ resp.route = "edit_profile"
    /\ resp.status = "badcreds"
    /\ Cardinality(DOMAIN users) = 2

\* C3: for a logged-in user u, GET / returns the messages owned by u or by a
\* user u follows and no other, newest first, cut to the 100 newest; for a
\* request with no current user it returns no messages.
C3_HomeFeed ==
    resp.route = "homepage" =>
       IF NoCurrentUser(resp.client)
       THEN resp.status = "anon" /\ resp.feed = <<>>
       ELSE LET u == session[resp.client]
                M == {m \in DOMAIN messages :
                         messages[m].user_id \in {u} \cup following(u)}
                f == resp.feed
                n == Len(f)
            IN
            /\ resp.status = "ok"
            /\ n = IF Cardinality(M) < 100 THEN Cardinality(M) ELSE 100
            /\ \A i \in 1..n : f[i] \in M
            /\ Cardinality({f[i] : i \in 1..n}) = n
            /\ \A i \in 1..(n - 1) :
                  messages[f[i]].timestamp >= messages[f[i + 1]].timestamp
            /\ \A m \in M \ {f[i] : i \in 1..n} :
                  n > 0 /\ messages[m].timestamp <= messages[f[n]].timestamp

\* C3 witness: the feed of a user who follows another was cut to 100 rows
C3_Witness ==
    /\ resp.route = "homepage"
    /\ Len(resp.feed) = 100
    /\ following(session[resp.client]) # {}
    /\ Cardinality({m \in DOMAIN messages :
                      messages[m].user_id \in
                         {session[resp.client]} \cup following(session[resp.client])})
          > 100

====
